---- MODULE Spec2Model ----
(***************************************************************************)
(* NeuroTracker: triple extraction (preprocessor.py), the label           *)
(* classifier and the bulk load loops (main1.py, graphGenerator.py) and   *)
(* the Neo4j adapter NeoGraph (preprocessor.py).                          *)
(*                                                                         *)
(* The graph held by Neo4j is modelled as a sequence of node records and  *)
(* a sequence of relationship records, so that duplicates are             *)
(* representable; every Cypher statement NeoGraph submits is one atomic   *)
(* step on it.                                                             *)
(***************************************************************************)
EXTENDS Integers, Sequences, FiniteSets, TLC

VARIABLES
    nodes,      \* Neo4j nodes, in creation order: [label, name, cui]
    edges,      \* Neo4j relationships: [src, dst, type, dir, conf, example]
    supplied,   \* history: per edge identity, greatest conf of every call
    effective,  \* history: same, over the calls that found both endpoints
    firstCall,  \* history: per edge identity, (dir, sent) of the first such call
    last,       \* history: what the latest store call was and what it met
    ncalls,     \* number of store calls made so far
    doc,        \* extract_triples: the parsed text, tokens [text, lemma, dep, head]
    triples,    \* extract_triples: the list it returns
    xpc,        \* extract_triples: "ready" before the call, "returned" after
    termIn,     \* label_for: the name given
    labelMain,  \* label_for of main1.py: the category returned
    labelGen,   \* label_for of graphGenerator.py: the category returned
    constraints, \* Neo4j uniqueness constraints, by label, in creation order
    spc,        \* _create_schema: "idle", "schema" (in the loop), "ready", "raised"
    si,         \* _create_schema: position in statements
    attempted,  \* history: the statements submitted in the current run
    runs,       \* history: NeoGraph constructions started
    completed,  \* history: NeoGraph constructions that returned
    schemaErr,  \* the error the current run raised, or "none"
    hpc,        \* Generate Graph handler: where it stands
    storage_type, \* "Neo4j Database" or "Local File"
    tlist,      \* the list extract_triples returns in this run
    ix,         \* bulk load loop: position i in the list (from 1)
    lpc,        \* bulk load loop: the statement of the body to run next
    cur,        \* subj_norm, subj_cui, obj_norm, obj_cui of the current triple
    triple_data, \* the output records
    inserted,   \* the success count
    drivers,    \* Neo4j drivers made and not yet closed
    entered,    \* history: positions whose loop body was started
    failed,     \* history: positions whose loop body raised
    called,     \* history: the pipeline functions called in this run
    tcalls,     \* history: the store calls made for the current triple, in order
    gpc,        \* graphGenerator.py handler: where it stands
    gtriples    \* graphGenerator.py handler: its list triples, normalized in place

storeVars == <<nodes, edges, supplied, effective, firstCall, last, ncalls>>

extractVars == <<doc, triples, xpc>>

labelVars == <<termIn, labelMain, labelGen>>

schemaVars == <<constraints, spc, si, attempted, runs, completed, schemaErr>>

loadVars == <<hpc, storage_type, tlist, ix, lpc, cur, triple_data, inserted,
              drivers, entered, failed, called, tcalls, gpc, gtriples>>

\* the variables of the graphGenerator.py handler alone
genVars == <<gpc, gtriples>>

\* the history variables of the store and of schema creation
storeGhost == <<supplied, effective, firstCall, last, ncalls>>

schemaGhost == <<spc, si, attempted, runs, completed, schemaErr>>

vars == <<storeVars, extractVars, labelVars, schemaVars, loadVars>>

(***************************************************************************)
(* Bounds of the model.                                                    *)
(***************************************************************************)
MaxCalls == 4
MaxEdges == 2
DocLen == 4
MaxWords == 2
MaxRuns == 4
MaxTriples == 2

(***************************************************************************)
(* Values.  A nullable property is <<>> (absent, Cypher null, Python      *)
(* None) or <<v>>.  Confidences are in tenths (6 is 0.6).                 *)
(***************************************************************************)
NULL == <<>>

Some(v) == <<v>>

Stress == <<"TRAIT", "Stress">>

Theta == <<"NEURAL_PATTERN", "theta oscillations">>

\* the node keys <<category, name>> the calls are drawn from
NodeKeys == {Stress, Theta}

Dirs == {"+", "-"}

Confs == {NULL, Some(4), Some(6)}

Sents == {"s1", "s2"}

Cuis == {NULL, Some("C0038435")}

\* the edge identities <<source key, target key, relation type>> the calls
\* are drawn from: two types on one pair, the reverse pair, a self loop
EdgeIds == {<<Stress, Theta, "AFFECTS">>, <<Stress, Theta, "MODULATES">>,
            <<Theta, Stress, "AFFECTS">>, <<Stress, Stress, "AFFECTS">>}

(***************************************************************************)
(* Cypher comparison r.conf < $conf: null when either side is null, and a *)
(* null condition does not select its WHEN branch.                        *)
(***************************************************************************)
CypherLess(a, b) == a # NULL /\ b # NULL /\ a[1] < b[1]

\* faulty variant: the CASE dropped, r.conf = $conf on every match
CaseConf_Overwrite(old, conf) == conf

\* ON MATCH SET r.conf = CASE ... END
CaseConf(old, conf) ==
    IF old = NULL THEN conf
    ELSE IF CypherLess(old, conf) THEN conf
    ELSE old

\* MATCH (n:label {name:$name}): the nodes carrying the label and the name
MatchNodes(ns, label, name) ==
    {i \in DOMAIN ns : ns[i].label = label /\ ns[i].name = name}

\* faulty variant: CREATE in place of MERGE
upsert_node_Create(ns, label, name, cui) ==
    Append(ns, [label |-> label, name |-> name, cui |-> cui])

\* faulty variant: MERGE ... ON CREATE SET n.cui=$cui, the match path left alone
upsert_node_OnCreateOnly(ns, label, name, cui) ==
    IF MatchNodes(ns, label, name) = {}
    THEN Append(ns, [label |-> label, name |-> name, cui |-> cui])
    ELSE ns

\* MERGE (n:label {name:$name}) SET n.cui=$cui
upsert_node(ns, label, name, cui) ==
    IF MatchNodes(ns, label, name) = {}
    THEN Append(ns, [label |-> label, name |-> name, cui |-> cui])
    ELSE [i \in DOMAIN ns |->
            IF i \in MatchNodes(ns, label, name)
            THEN [ns[i] EXCEPT !.cui = cui]
            ELSE ns[i]]

\* the relationships of type t from node a to node b
MatchRels(es, a, b, t) ==
    {j \in DOMAIN es : es[j].src = a /\ es[j].dst = b /\ es[j].type = t}

\* faulty variant: CREATE (a)-[r:t]->(b) in place of MERGE
MergeRel_Create(es, a, b, t, dir, conf, sent) ==
    Append(es, [src |-> a, dst |-> b, type |-> t,
                dir |-> dir, conf |-> conf, example |-> sent])

\* faulty variant: the three properties set on both the create and the match path
MergeRel_SetAlways(es, a, b, t, dir, conf, sent) ==
    IF MatchRels(es, a, b, t) = {}
    THEN Append(es, [src |-> a, dst |-> b, type |-> t,
                     dir |-> dir, conf |-> conf, example |-> sent])
    ELSE [j \in DOMAIN es |->
            IF j \in MatchRels(es, a, b, t)
            THEN [es[j] EXCEPT !.dir = dir, !.example = sent,
                               !.conf = CaseConf(@, conf)]
            ELSE es[j]]

\* MERGE (a)-[r:t]->(b) ON CREATE SET ... ON MATCH SET ... for one bound (a, b)
MergeRel(es, a, b, t, dir, conf, sent) ==
    IF MatchRels(es, a, b, t) = {}
    THEN Append(es, [src |-> a, dst |-> b, type |-> t,
                     dir |-> dir, conf |-> conf, example |-> sent])
    ELSE [j \in DOMAIN es |->
            IF j \in MatchRels(es, a, b, t)
            THEN [es[j] EXCEPT !.conf = CaseConf(@, conf)]
            ELSE es[j]]

\* the MERGE clause run once per row (a, b) the MATCH clause produced
RECURSIVE MergeRows(_, _, _, _, _, _)
MergeRows(es, rows, t, dir, conf, sent) ==
    IF rows = {} THEN es
    ELSE LET r == CHOOSE x \in rows : TRUE
         IN  MergeRows(MergeRel(es, r[1], r[2], t, dir, conf, sent),
                       rows \ {r}, t, dir, conf, sent)

\* faulty variant: MERGE on the whole path, which creates the endpoints it misses
upsert_relation_MergePath(ns, es, sl, sn, el, en, t, dir, conf, sent) ==
    LET n1 == IF MatchNodes(ns, sl, sn) = {}
              THEN Append(ns, [label |-> sl, name |-> sn, cui |-> NULL]) ELSE ns
        n2 == IF MatchNodes(n1, el, en) = {}
              THEN Append(n1, [label |-> el, name |-> en, cui |-> NULL]) ELSE n1
    IN  [nodes |-> n2,
         edges |-> MergeRows(es, MatchNodes(n2, sl, sn) \X MatchNodes(n2, el, en),
                             t, dir, conf, sent)]

\* MATCH (a:sl {name:$s_name}), (b:el {name:$e_name}) MERGE (a)-[r:t]->(b) ...
upsert_relation(ns, es, sl, sn, el, en, t, dir, conf, sent) ==
    [nodes |-> ns,
     edges |-> MergeRows(es, MatchNodes(ns, sl, sn) \X MatchNodes(ns, el, en),
                         t, dir, conf, sent)]

(***************************************************************************)
(* Reading the graph by key.                                               *)
(***************************************************************************)
HasNode(ns, key) == MatchNodes(ns, key[1], key[2]) # {}

\* the relationships stored for an edge identity <<source key, target key, type>>
RelsOf(ns, es, id) ==
    {j \in DOMAIN es :
        /\ es[j].src \in MatchNodes(ns, id[1][1], id[1][2])
        /\ es[j].dst \in MatchNodes(ns, id[2][1], id[2][2])
        /\ es[j].type = id[3]}

\* the greater of two nullable confidences, null being no confidence
NMax(a, b) ==
    IF a = NULL THEN b
    ELSE IF b = NULL THEN a
    ELSE IF a[1] < b[1] THEN b ELSE a

NoCall == [op |-> "none", outcome |-> "none", cmp |-> "none",
           otherDir |-> FALSE, otherSent |-> FALSE, again |-> FALSE,
           args |-> <<>>]

\* the variables of the other components, at rest
ExtractIdle == doc = <<>> /\ triples = <<>> /\ xpc = "idle"

LabelIdle == termIn = <<>> /\ labelMain = NULL /\ labelGen = NULL

NoCur == [subj_norm |-> <<>>, subj_cui |-> NULL, obj_norm |-> <<>>, obj_cui |-> NULL]

LoadIdle ==
    /\ hpc = "idle"
    /\ storage_type = "Neo4j Database"
    /\ tlist = <<>>
    /\ ix = 1
    /\ lpc = "for"
    /\ cur = NoCur
    /\ triple_data = <<>>
    /\ inserted = 0
    /\ drivers = 0
    /\ entered = {}
    /\ failed = {}
    /\ called = {}
    /\ tcalls = <<>>
    /\ gpc = "idle"
    /\ gtriples = <<>>

SchemaIdle ==
    /\ constraints = <<>>
    /\ spc = "idle"
    /\ si = 1
    /\ attempted = {}
    /\ runs = 0
    /\ completed = 0
    /\ schemaErr = "none"

StoreInit ==
    /\ ExtractIdle
    /\ LabelIdle
    /\ SchemaIdle
    /\ LoadIdle
    /\ nodes = <<>>
    /\ edges = <<>>
    /\ supplied = [id \in EdgeIds |-> NULL]
    /\ effective = [id \in EdgeIds |-> NULL]
    /\ firstCall = [id \in EdgeIds |-> NULL]
    /\ last = NoCall
    /\ ncalls = 0

\* a call of NeoGraph.upsert_node
UpsertNode(key, cui) ==
    /\ ncalls < MaxCalls
    /\ nodes' = upsert_node(nodes, key[1], key[2], cui)
    /\ last' = [op |-> "upsert_node",
                outcome |-> IF HasNode(nodes, key) THEN "matched" ELSE "created",
                cmp |-> IF cui = NULL /\ \E i \in MatchNodes(nodes, key[1], key[2]) :
                                            nodes[i].cui # NULL
                        THEN "nulled" ELSE "none",
                otherDir |-> FALSE, otherSent |-> FALSE,
                again |-> (last.op = "upsert_node" /\ last.args = <<key, cui>>),
                args |-> <<key, cui>>]
    /\ ncalls' = ncalls + 1
    /\ UNCHANGED <<edges, supplied, effective, firstCall,
                   extractVars, labelVars, schemaVars, loadVars>>

\* a call of NeoGraph.upsert_relation
UpsertRelation(id, dir, conf, sent) ==
    LET found == HasNode(nodes, id[1]) /\ HasNode(nodes, id[2])
        old == RelsOf(nodes, edges, id)
        new == upsert_relation(nodes, edges, id[1][1], id[1][2],
                               id[2][1], id[2][2], id[3], dir, conf, sent)
    IN  /\ ncalls < MaxCalls
        /\ Len(new.edges) <= MaxEdges
        /\ nodes' = new.nodes
        /\ edges' = new.edges
        /\ supplied' = [supplied EXCEPT ![id] = NMax(@, conf)]
        /\ effective' = IF found THEN [effective EXCEPT ![id] = NMax(@, conf)]
                        ELSE effective
        /\ firstCall' = IF found /\ firstCall[id] = NULL
                        THEN [firstCall EXCEPT ![id] = Some(<<dir, sent>>)]
                        ELSE firstCall
        /\ last' = [op |-> "upsert_relation",
                    outcome |-> IF ~found THEN "missing"
                                ELSE IF old = {} THEN "created" ELSE "matched",
                    cmp |-> IF old = {} \/ conf = NULL THEN "none"
                            ELSE IF \E j \in old : CypherLess(conf, edges[j].conf)
                                 THEN "lower"
                            ELSE IF \E j \in old : CypherLess(edges[j].conf, conf)
                                 THEN "higher"
                            ELSE "same",
                    otherDir |-> \E j \in old : edges[j].dir # dir,
                    otherSent |-> \E j \in old : edges[j].example # sent,
                    again |-> FALSE,
                    args |-> <<>>]
        /\ ncalls' = ncalls + 1
        /\ UNCHANGED <<extractVars, labelVars, schemaVars, loadVars>>

StoreNext ==
    \/ \E key \in NodeKeys, cui \in Cuis : UpsertNode(key, cui)
    \/ \E id \in EdgeIds, dir \in Dirs, conf \in Confs, sent \in Sents :
          UpsertRelation(id, dir, conf, sent)

Spec == StoreInit /\ [][StoreNext]_vars

(***************************************************************************)
(* Properties of NeoGraph.upsert_node and NeoGraph.upsert_relation (Spec).*)
(***************************************************************************)

\* C1 as stated: for every edge identity, the stored confidence equals the
\* greatest confidence supplied by all upsert_relation calls made on that
\* identity so far.
C1_MaxOfEveryCall ==
    \A id \in EdgeIds : \A j \in RelsOf(nodes, edges, id) :
        edges[j].conf = supplied[id]

\* C1 as amended: for every edge identity, the stored confidence equals the
\* greatest confidence supplied by the upsert_relation calls made on it
\* while both endpoint nodes existed (null when none supplied one), and no
\* edge is stored before the first such call; a step never lowers it.
C1_MaxOfCallsWithEndpoints ==
    /\ [](\A id \in EdgeIds :
            /\ \A j \in RelsOf(nodes, edges, id) : edges[j].conf = effective[id]
            /\ (firstCall[id] = NULL) = (RelsOf(nodes, edges, id) = {}))
    /\ [][\A j \in DOMAIN edges :
            /\ j \in DOMAIN edges'
            /\ ~CypherLess(edges'[j].conf, edges[j].conf)
            /\ (edges[j].conf # NULL => edges'[j].conf # NULL)]_vars

\* an upsert with a lower confidence met an edge holding a higher one
C1_Witness ==
    /\ last.op = "upsert_relation"
    /\ last.outcome = "matched"
    /\ last.cmp = "lower"

\* C2: the direction sign and the example sentence of every stored edge are
\* those of the first call on its identity that found both endpoints (the
\* creating call), whatever later calls supply.
C2_DirAndExampleFixed ==
    \A id \in EdgeIds : \A j \in RelsOf(nodes, edges, id) :
        /\ firstCall[id] # NULL
        /\ edges[j].dir = firstCall[id][1][1]
        /\ edges[j].example = firstCall[id][1][2]

\* an upsert met an existing edge with another direction and another sentence
C2_Witness ==
    /\ last.op = "upsert_relation"
    /\ last.outcome = "matched"
    /\ last.otherDir
    /\ last.otherSent

\* C3: an upsert_node call that repeats the arguments of the call just
\* before it leaves nodes and edges as that call left them.
C3_UpsertNodeIdempotent ==
    [][(last'.op = "upsert_node" /\ last'.again)
        => (nodes' = nodes /\ edges' = edges)]_vars

\* the same upsert_node call was made twice in a row
C3_Witness == last.op = "upsert_node" /\ last.again

\* C4: after upsert_node(category, name, id) the graph has a node of that
\* key, every node of that key has concept id = id (null included), and
\* the nodes of every other key are as they were.
C4_LastWriteWins ==
    [][last'.op = "upsert_node" =>
        LET key == last'.args[1]
            cui == last'.args[2]
        IN  /\ MatchNodes(nodes', key[1], key[2]) # {}
            /\ \A i \in MatchNodes(nodes', key[1], key[2]) : nodes'[i].cui = cui
            /\ \A i \in DOMAIN nodes :
                  i \notin MatchNodes(nodes, key[1], key[2])
                      => (i \in DOMAIN nodes' /\ nodes'[i] = nodes[i])]_vars

\* an upsert with a null concept id met a node holding a non-null one,
\* while another node was in the graph
C4_Witness ==
    /\ last.op = "upsert_node"
    /\ last.outcome = "matched"
    /\ last.cmp = "nulled"
    /\ Len(nodes) > 1

\* C5: an upsert_relation call that names a source or a target node the
\* graph does not hold leaves nodes and edges unchanged.
C5_NoImplicitEndpoints ==
    [][(last'.op = "upsert_relation" /\ last'.outcome = "missing")
        => (nodes' = nodes /\ edges' = edges)]_vars

\* an upsert_relation call named a missing endpoint while the other exists
C5_Witness ==
    /\ last.op = "upsert_relation"
    /\ last.outcome = "missing"
    /\ nodes # <<>>

\* the key <<category, name>> of the node at position p
KeyOf(ns, p) == <<ns[p].label, ns[p].name>>

\* C16: in every state any sequence of upsert_node and upsert_relation
\* calls leads to, no two nodes have the same category and name, no two
\* relationships have the same source key, target key and type, both ends
\* of every relationship are nodes of the graph, and no call removes a node
\* or changes its key.
C16_GraphInvariants ==
    /\ [](/\ \A p, q \in DOMAIN nodes :
               KeyOf(nodes, p) = KeyOf(nodes, q) => p = q
          /\ \A j \in DOMAIN edges :
               edges[j].src \in DOMAIN nodes /\ edges[j].dst \in DOMAIN nodes
          /\ \A i, j \in DOMAIN edges :
               (/\ KeyOf(nodes, edges[i].src) = KeyOf(nodes, edges[j].src)
                /\ KeyOf(nodes, edges[i].dst) = KeyOf(nodes, edges[j].dst)
                /\ edges[i].type = edges[j].type) => i = j)
    /\ [][\A p \in DOMAIN nodes :
             p \in DOMAIN nodes' /\ KeyOf(nodes', p) = KeyOf(nodes, p)]_vars

\* two nodes and a relationship are stored, and the latest call was an
\* upsert_relation that found the relationship it named
C16_Witness ==
    /\ Len(nodes) = 2
    /\ Len(edges) = 1
    /\ last.op = "upsert_relation"
    /\ last.outcome = "matched"
    /\ ncalls >= 4


(***************************************************************************)
(* Triple extraction: build_matcher and extract_triples (preprocessor.py). *)
(* A parsed text is a sequence of tokens; head is the position of the     *)
(* token's syntactic head (the root is its own head).                     *)
(***************************************************************************)
Tok(text, lemma, dep, head) ==
    [text |-> text, lemma |-> lemma, dep |-> dep, head |-> head]

\* the words a text opens with: its root verb
RootWords == {<<"affects", "affect">>, <<"shows", "show">>, <<"predicts", "predict">>}

\* the words that follow, each with the dependency role the parser gave it
ChildWords == {<<"Novelty", "novelty", "nsubj">>,
               <<"rhythm", "rhythm", "nsubjpass">>,
               <<"theta", "theta", "dobj">>,
               <<"oscillations", "oscillation", "pobj">>,
               <<"not", "not", "neg">>,
               <<"alters", "alter", "ccomp">>,
               <<"strongly", "strongly", "advmod">>}

\* the parsed texts of n tokens: a root verb, then words attached to the
\* root or to the second token
Docs(n) ==
    UNION {
      {[p \in 1..n |->
          IF p = 1 THEN Tok(r[1], r[2], "ROOT", 1)
          ELSE Tok(w[p][1], w[p][2], w[p][3], h[p])] :
        w \in [2..n -> ChildWords],
        h \in {g \in [2..n -> 1..2] : g[2] = 1}} :
      r \in RootWords}

\* build_matcher: the families in registration order, each with its lemmas
Families == <<"MODULATES", "AFFECTS", "EXHIBITS">>

LemmasOf(family) ==
    CASE family = "MODULATES" -> {"modulate", "influence", "affect"}
      [] family = "AFFECTS" -> {"affect", "alter", "increase", "decrease"}
      [] family = "EXHIBITS" -> {"exhibit", "show", "display"}

SubjDeps == {"nsubj", "nsubjpass"}

ObjDeps == {"dobj", "pobj"}

\* REL_OP ">": c is an immediate dependent of v
IsChild(d, v, c) == c # v /\ d[c].head = v

\* the hits of one family's pattern: <<verb, subj, obj>> token positions
PatternHits(d, family) ==
    {h \in (DOMAIN d) \X (DOMAIN d) \X (DOMAIN d) :
        /\ d[h[1]].lemma \in LemmasOf(family)
        /\ IsChild(d, h[1], h[2]) /\ d[h[2]].dep \in SubjDeps
        /\ IsChild(d, h[1], h[3]) /\ d[h[3]].dep \in ObjDeps}

\* the hits of one pattern are listed by position: verb, subject, object
HitBefore(a, b) ==
    \/ a[1] < b[1]
    \/ a[1] = b[1] /\ a[2] < b[2]
    \/ a[1] = b[1] /\ a[2] = b[2] /\ a[3] < b[3]

RECURSIVE SortHits(_)
SortHits(hs) ==
    IF hs = {} THEN <<>>
    ELSE LET first == CHOOSE a \in hs : \A b \in hs \ {a} : HitBefore(a, b)
         IN  <<first>> \o SortHits(hs \ {first})

\* matcher(doc): the list of <<match_id, token_ids>>, family by family
RECURSIVE MatcherFrom(_, _)
MatcherFrom(d, f) ==
    IF f > Len(Families) THEN <<>>
    ELSE [k \in 1..Cardinality(PatternHits(d, Families[f])) |->
            <<Families[f], SortHits(PatternHits(d, Families[f]))[k]>>]
         \o MatcherFrom(d, f + 1)

\* faulty variant: a token triple already reported by an earlier family is
\* not reported again
matcher_OncePerTokens(d) ==
    LET all == MatcherFrom(d, 1)
        keep == {k \in DOMAIN all : \A j \in 1..(k - 1) : all[j][2] # all[k][2]}
    IN  [n \in 1..Cardinality(keep) |->
            all[CHOOSE k \in keep : Cardinality({j \in keep : j < k}) = n - 1]]

matcher(d) == MatcherFrom(d, 1)

\* estimate_trait_intensity, in tenths: the first keyword the text holds
intensity_keywords ==
    <<<<"strongly", 9>>, <<"highly", 8>>, <<"significantly", 7>>,
      <<"moderately", 5>>, <<"weakly", 3>>, <<"slightly", 2>>>>

RECURSIVE IntensityFrom(_, _)
IntensityFrom(d, k) ==
    IF k > Len(intensity_keywords) THEN 5
    ELSE IF \E p \in DOMAIN d : d[p].text = intensity_keywords[k][1]
         THEN intensity_keywords[k][2]
         ELSE IntensityFrom(d, k + 1)

estimate_trait_intensity(d) == IntensityFrom(d, 1)

\* a direct child of the verb carries the negation role
HasNegChild(d, v) == \E c \in DOMAIN d : IsChild(d, v, c) /\ d[c].dep = "neg"

\* the dict extract_triples appends for one hit
TripleOf(d, m) ==
    [subject |-> d[m[2][2]].text,
     subject_type |-> "TRAIT",
     relation |-> m[1],
     object |-> d[m[2][3]].text,
     object_type |-> "NEURAL_PATTERN",
     confidence |-> 8,
     condition |-> "baseline",
     intensity |-> estimate_trait_intensity(d),
     sentence |-> d,
     dir |-> "+"]

extract_triples(d) == [k \in 1..Len(matcher(d)) |-> TripleOf(d, matcher(d)[k])]

StoreIdle ==
    /\ nodes = <<>>
    /\ edges = <<>>
    /\ supplied = [id \in EdgeIds |-> NULL]
    /\ effective = [id \in EdgeIds |-> NULL]
    /\ firstCall = [id \in EdgeIds |-> NULL]
    /\ last = NoCall
    /\ ncalls = 0

ExtractInit ==
    /\ StoreIdle
    /\ LabelIdle
    /\ SchemaIdle
    /\ LoadIdle
    /\ doc \in Docs(DocLen)
    /\ triples = <<>>
    /\ xpc = "ready"

\* a call of extract_triples on the parsed text
ExtractTriples ==
    /\ xpc = "ready"
    /\ triples' = extract_triples(doc)
    /\ xpc' = "returned"
    /\ UNCHANGED <<doc, storeVars, labelVars, schemaVars, loadVars>>

ExtractNext == ExtractTriples

SpecExtract == ExtractInit /\ [][ExtractNext]_vars

\* C6: every candidate extract_triples emits has direction "-" exactly when
\* a direct child of its matched verb carries the negation role, and "+"
\* otherwise.
C6_DirectionFollowsNegation ==
    xpc = "returned" =>
        \A k \in DOMAIN triples :
            /\ triples[k].dir \in {"+", "-"}
            /\ (triples[k].dir = "-") = HasNegChild(doc, matcher(doc)[k][2][1])

\* the direct children of v in a subject role, and in an object role
SubjectsOf(d, v) == {c \in DOMAIN d : IsChild(d, v, c) /\ d[c].dep \in SubjDeps}

ObjectsOf(d, v) == {c \in DOMAIN d : IsChild(d, v, c) /\ d[c].dep \in ObjDeps}

\* the number of (verb, subject, object) combinations of one family among
\* the verbs at positions 1..v
RECURSIVE HitCount(_, _, _)
HitCount(d, family, v) ==
    IF v = 0 THEN 0
    ELSE HitCount(d, family, v - 1)
         + (IF d[v].lemma \in LemmasOf(family)
            THEN Cardinality(SubjectsOf(d, v)) * Cardinality(ObjectsOf(d, v))
            ELSE 0)

\* C12: extract_triples emits, for each relation family, as many candidates
\* as there are combinations of a verb of the family with one of its direct
\* subject children and one of its direct object children -- one candidate
\* per matcher hit, one per family for a verb in two families, none for a
\* verb without a subject child or without an object child -- and each
\* candidate carries the texts of such a subject and object.
C12_OneCandidatePerHit ==
    xpc = "returned" =>
        /\ \A k \in DOMAIN triples : triples[k].relation \in
                                        {Families[f] : f \in DOMAIN Families}
        /\ \A f \in DOMAIN Families :
              /\ Cardinality({k \in DOMAIN triples : triples[k].relation = Families[f]})
                    = HitCount(doc, Families[f], Len(doc))
              /\ \A k \in DOMAIN triples :
                    triples[k].relation = Families[f] =>
                        \E v \in DOMAIN doc :
                            /\ doc[v].lemma \in LemmasOf(Families[f])
                            /\ \E c \in SubjectsOf(doc, v) : doc[c].text = triples[k].subject
                            /\ \E c \in ObjectsOf(doc, v) : doc[c].text = triples[k].object

\* "affects" with a subject and an object gave one MODULATES and one AFFECTS
\* candidate, and "alters", with no child of its own, gave none
C12_Witness ==
    /\ xpc = "returned"
    /\ doc[1].lemma = "affect"
    /\ doc[2].lemma = "alter"
    /\ Len(triples) = 2
    /\ triples[1].relation = "MODULATES"
    /\ triples[2].relation = "AFFECTS"
    /\ triples[1].subject = triples[2].subject
    /\ triples[1].object = triples[2].object

(***************************************************************************)
(* The label classifier label_for, defined once in main1.py and once in   *)
(* graphGenerator.py.  A name is the sequence of its characters.          *)
(***************************************************************************)
\* str.lower on one character
LowerChar(c) ==
    CASE c = "A" -> "a"
      [] c = "B" -> "b"
      [] c = "C" -> "c"
      [] c = "D" -> "d"
      [] c = "E" -> "e"
      [] c = "F" -> "f"
      [] c = "G" -> "g"
      [] c = "H" -> "h"
      [] c = "I" -> "i"
      [] c = "J" -> "j"
      [] c = "K" -> "k"
      [] c = "L" -> "l"
      [] c = "M" -> "m"
      [] c = "N" -> "n"
      [] c = "O" -> "o"
      [] c = "P" -> "p"
      [] c = "Q" -> "q"
      [] c = "R" -> "r"
      [] c = "S" -> "s"
      [] c = "T" -> "t"
      [] c = "U" -> "u"
      [] c = "V" -> "v"
      [] c = "W" -> "w"
      [] c = "X" -> "x"
      [] c = "Y" -> "y"
      [] c = "Z" -> "z"
      [] OTHER -> c

\* str.lower
Lower(term) == [k \in DOMAIN term |-> LowerChar(term[k])]

\* x in tl: x occurs in tl as a substring
Contains(tl, x) ==
    \E k \in 0..(Len(tl) - Len(x)) : SubSeq(tl, k + 1, k + Len(x)) = x

\* any(x in tl for x in keywords)
AnyIn(tl, keywords) == \E k \in DOMAIN keywords : Contains(tl, keywords[k])

RegionKeywords ==
    <<<<"h", "i", "p", "p", "o", "c", "a", "m", "p">>,
      <<"c", "o", "r", "t", "e", "x">>,
      <<"a", "m", "y", "g", "d", "a", "l", "a">>,
      <<"p", "f", "c">>>>

PatternKeywords ==
    <<<<"t", "h", "e", "t", "a">>,
      <<"a", "c", "t", "i", "v", "a", "t", "i", "o", "n">>,
      <<"s", "p", "i", "k", "e">>,
      <<"o", "s", "c", "i", "l", "l", "a", "t", "i", "o", "n">>>>

EnvironmentKeywords ==
    <<<<"s", "t", "r", "e", "s", "s">>,
      <<"n", "o", "v", "e", "l", "t", "y">>,
      <<"r", "e", "w", "a", "r", "d">>,
      <<"e", "n", "v", "i", "r", "o", "n", "m", "e", "n", "t">>>>

Categories == {"NEURAL_REGION", "NEURAL_PATTERN", "ENVIRONMENT", "TRAIT"}

\* faulty variant: the ENVIRONMENT list tested before the NEURAL_PATTERN list
label_for_EnvironmentFirst(term) ==
    LET term_l == Lower(term)
    IN  IF AnyIn(term_l, RegionKeywords) THEN "NEURAL_REGION"
        ELSE IF AnyIn(term_l, EnvironmentKeywords) THEN "ENVIRONMENT"
        ELSE IF AnyIn(term_l, PatternKeywords) THEN "NEURAL_PATTERN"
        ELSE "TRAIT"

\* label_for of main1.py
label_for(term) ==
    LET term_l == Lower(term)
    IN  IF AnyIn(term_l, RegionKeywords) THEN "NEURAL_REGION"
        ELSE IF AnyIn(term_l, PatternKeywords) THEN "NEURAL_PATTERN"
        ELSE IF AnyIn(term_l, EnvironmentKeywords) THEN "ENVIRONMENT"
        ELSE "TRAIT"

\* label_for of graphGenerator.py
label_for_graphGenerator(term) ==
    LET tl == Lower(term)
    IN  IF AnyIn(tl, RegionKeywords) THEN "NEURAL_REGION"
        ELSE IF AnyIn(tl, PatternKeywords) THEN "NEURAL_PATTERN"
        ELSE IF AnyIn(tl, EnvironmentKeywords) THEN "ENVIRONMENT"
        ELSE "TRAIT"

\* the words names are made of
Words ==
    {<<"H", "i", "p", "p", "o", "c", "a", "m", "p", "u", "s">>,
     <<"P", "F", "C">>,
     <<"T", "h", "e", "t", "a">>,
     <<"s", "p", "i", "k", "e">>,
     <<"S", "t", "r", "e", "s", "s">>,
     <<"r", "e", "w", "a", "r", "d">>,
     <<"m", "o", "o", "d">>,
     <<"h", "i", "p", "p", "o">>,
     <<"c", "a", "m", "p", "u", "s">>,
     <<"C", "o", "r", "t", "i", "s", "o", "l">>}

\* what stands between two words of a name: nothing, or a space
Joiners == {<<>>, <<" ">>}

\* the names of n words
RECURSIVE NamesOf(_)
NamesOf(n) ==
    IF n = 1 THEN Words
    ELSE {t \o j \o w : t \in NamesOf(n - 1), j \in Joiners, w \in Words}

\* the names of up to m words
Names(m) == UNION {NamesOf(n) : n \in 1..m}

LabelInit ==
    /\ StoreIdle
    /\ ExtractIdle
    /\ SchemaIdle
    /\ LoadIdle
    /\ termIn \in Names(MaxWords)
    /\ labelMain = NULL
    /\ labelGen = NULL

\* both classifiers applied to the name
Classify ==
    /\ labelMain = NULL
    /\ labelMain' = Some(label_for(termIn))
    /\ labelGen' = Some(label_for_graphGenerator(termIn))
    /\ UNCHANGED <<termIn, storeVars, extractVars, schemaVars, loadVars>>

LabelNext == Classify

SpecLabel == LabelInit /\ [][LabelNext]_vars

\* C7: every name gets exactly one of the four categories: NEURAL_REGION
\* when its lowercased form holds a region keyword; else NEURAL_PATTERN when
\* it holds a pattern keyword; else ENVIRONMENT when it holds an environment
\* keyword; else TRAIT; and both copies of the classifier agree.
C7_ClassifierPriority ==
    labelMain # NULL =>
        LET tl == Lower(termIn)
            region == AnyIn(tl, RegionKeywords)
            pattern == AnyIn(tl, PatternKeywords)
            environment == AnyIn(tl, EnvironmentKeywords)
        IN  /\ labelMain[1] \in Categories
            /\ region => labelMain[1] = "NEURAL_REGION"
            /\ (~region /\ pattern) => labelMain[1] = "NEURAL_PATTERN"
            /\ (~region /\ ~pattern /\ environment) => labelMain[1] = "ENVIRONMENT"
            /\ (~region /\ ~pattern /\ ~environment) => labelMain[1] = "TRAIT"
            /\ labelGen = labelMain

\* a name in capitals that holds a pattern keyword and an environment
\* keyword, and no region keyword, has been classified
C7_Witness ==
    /\ labelMain = Some("NEURAL_PATTERN")
    /\ termIn # Lower(termIn)
    /\ AnyIn(Lower(termIn), EnvironmentKeywords)

(***************************************************************************)
(* Schema creation: NeoGraph.__init__ and NeoGraph._create_schema.  The   *)
(* database keeps its constraints as a list, so that a duplicate is       *)
(* representable.  A statement is named by the label it constrains.       *)
(***************************************************************************)
\* [s.strip() for s in schema.split(";")]: four statements and the empty
\* remainder after the last ";"
statements == <<"TRAIT", "ENVIRONMENT", "NEURAL_REGION", "NEURAL_PATTERN", "">>

\* faulty variant: CREATE CONSTRAINT without IF NOT EXISTS, which Neo4j refuses when
\* the constraint is there
CreateConstraint_NoIfNotExists(cs, lbl) ==
    IF \E k \in DOMAIN cs : cs[k] = lbl
    THEN [constraints |-> cs, error |-> "ConstraintAlreadyExists"]
    ELSE [constraints |-> Append(cs, lbl), error |-> "none"]

\* CREATE CONSTRAINT IF NOT EXISTS FOR (n:lbl) REQUIRE n.name IS UNIQUE
CreateConstraint(cs, lbl) ==
    IF \E k \in DOMAIN cs : cs[k] = lbl
    THEN [constraints |-> cs, error |-> "none"]
    ELSE [constraints |-> Append(cs, lbl), error |-> "none"]

SchemaInit ==
    /\ StoreIdle
    /\ ExtractIdle
    /\ LabelIdle
    /\ SchemaIdle
    /\ LoadIdle

\* NeoGraph(...): the driver is made and _create_schema starts
NewGraph ==
    /\ spc \in {"idle", "ready", "raised"}
    /\ runs < MaxRuns
    /\ spc' = "schema"
    /\ si' = 1
    /\ attempted' = {}
    /\ runs' = runs + 1
    /\ schemaErr' = "none"
    /\ UNCHANGED <<constraints, completed,
                   storeVars, extractVars, labelVars, loadVars>>

\* for stmt in statements: if stmt: s.run(stmt), the store answering
RunStatement ==
    /\ spc = "schema"
    /\ si <= Len(statements)
    /\ statements[si] # ""
    /\ attempted' = attempted \cup {statements[si]}
    /\ LET r == CreateConstraint(constraints, statements[si])
       IN  /\ constraints' = r.constraints
           /\ schemaErr' = r.error
           /\ IF r.error = "none"
              THEN si' = si + 1 /\ spc' = spc
              ELSE si' = si /\ spc' = "raised"
    /\ UNCHANGED <<runs, completed, storeVars, extractVars, labelVars, loadVars>>

\* s.run(stmt) raises: the store is unreachable or rejects the statement;
\* nothing catches it inside _create_schema or __init__
RunStatementFails ==
    /\ spc = "schema"
    /\ si <= Len(statements)
    /\ statements[si] # ""
    /\ attempted' = attempted \cup {statements[si]}
    /\ schemaErr' = "ServiceUnavailable"
    /\ spc' = "raised"
    /\ UNCHANGED <<constraints, si, runs, completed,
                   storeVars, extractVars, labelVars, loadVars>>

\* if stmt: false for the empty remainder
SkipEmptyStatement ==
    /\ spc = "schema"
    /\ si <= Len(statements)
    /\ statements[si] = ""
    /\ si' = si + 1
    /\ UNCHANGED <<constraints, spc, attempted, runs, completed, schemaErr,
                   storeVars, extractVars, labelVars, loadVars>>

\* the loop is over: _create_schema and __init__ return
SchemaReturns ==
    /\ spc = "schema"
    /\ si > Len(statements)
    /\ spc' = "ready"
    /\ completed' = completed + 1
    /\ UNCHANGED <<constraints, si, attempted, runs, schemaErr,
                   storeVars, extractVars, labelVars, loadVars>>

SchemaNext ==
    \/ NewGraph
    \/ RunStatement
    \/ RunStatementFails
    \/ SkipEmptyStatement
    \/ SchemaReturns

SpecSchema == SchemaInit /\ [][SchemaNext]_vars

\* how many constraints the database holds on a label
ConstraintCount(lbl) == Cardinality({k \in DOMAIN constraints : constraints[k] = lbl})

\* C8: however many times schema creation runs, no statement is refused
\* because its constraint exists, no category ever has two constraints, and
\* a run that returns leaves exactly one constraint per category, four in
\* total.
C8_SchemaRepeatable ==
    /\ schemaErr # "ConstraintAlreadyExists"
    /\ \A lbl \in Categories : ConstraintCount(lbl) <= 1
    /\ spc = "ready" =>
          /\ Len(constraints) = 4
          /\ \A lbl \in Categories : ConstraintCount(lbl) = 1

\* schema creation has returned for the second time
C8_Witness == spc = "ready" /\ completed >= 2

\* C9: when a run of schema creation has ended, by returning or by raising,
\* each of the four constraint statements was attempted in it.
C9_RemainingStatementsAttempted ==
    spc \in {"ready", "raised"} => attempted = Categories

(***************************************************************************)
(* The "Generate Graph" handler of main1.py: model and matcher loading,   *)
(* the storage check, extraction, and the bulk load loop over the         *)
(* extracted triples.  It writes to the graph (nodes, edges) and to the   *)
(* constraints through NeoGraph.                                          *)
(***************************************************************************)
StressName == <<"S", "t", "r", "e", "s", "s">>

ThetaName == <<"t", "h", "e", "t", "a">>

CortisolName == <<"c", "o", "r", "t", "i", "s", "o", "l">>

HydrocortisoneName == <<"H", "y", "d", "r", "o", "c", "o", "r", "t", "i", "s", "o", "n", "e">>

\* normalize_entity: <<canonical name, cui>> of the first entity the linker
\* links, or the text itself and None.  The linker's knowledge base is
\* outside the repository; here it links two of the three mentions.
normalize_entity(text) ==
    IF text = StressName THEN <<StressName, Some("C0038435")>>
    ELSE IF text = CortisolName THEN <<HydrocortisoneName, Some("C0020268")>>
    ELSE <<text, NULL>>

\* the dicts extract_triples may return, by the fields the loop reads
TripleInputs ==
    {[subject |-> StressName, relation |-> "AFFECTS", object |-> ThetaName,
      dir |-> "+", confidence |-> 8, sentence |-> "s1"],
     [subject |-> CortisolName, relation |-> "MODULATES", object |-> StressName,
      dir |-> "+", confidence |-> 8, sentence |-> "s1"]}

\* the lists of up to m such dicts
TripleLists(m) == UNION {[1..n -> TripleInputs] : n \in 0..m}

StorageTypes == {"Neo4j Database", "Local File"}

\* _create_schema run to the end of its first k statements
RECURSIVE RunStatements(_, _)
RunStatements(cs, k) ==
    IF k = 0 THEN cs
    ELSE LET before == RunStatements(cs, k - 1)
         IN  IF statements[k] = "" THEN before
             ELSE CreateConstraint(before, statements[k]).constraints

\* faulty variant: break in place of continue
AfterTripleError_Break(idx, n) == n + 1

\* except Exception: st.warning(...); continue -- the loop goes on with the
\* triple after idx
AfterTripleError(idx, n) == idx + 1

\* faulty variant: the exception caught and the handler going on
AfterLoadFailure_Caught == "loaded"

\* load_model() stands outside every try: when it raises, the script run
\* ends there
AfterLoadFailure == "crashed"

\* faulty variant: the relation written before its endpoints
StoreSteps_RelationFirst == <<"upsert_relation", "upsert_subject", "upsert_object">>

\* the store calls of one triple, in the order the loop body makes them
StoreSteps == <<"upsert_subject", "upsert_object", "upsert_relation">>

\* the statement that follows a store call: the next one, then graph.close()
StepAfter(step) ==
    LET p == CHOOSE q \in DOMAIN StoreSteps : StoreSteps[q] = step
    IN  IF p < Len(StoreSteps) THEN StoreSteps[p + 1] ELSE "close"

\* the store call a step of the body makes
StoreCallAt(step) ==
    CASE step = "upsert_subject" -> "upsert_node(subject)"
      [] step = "upsert_object" -> "upsert_node(object)"
      [] step = "upsert_relation" -> "upsert_relation"

\* the function a step of the body calls
FunctionAt(step) ==
    CASE step \in {"normalize_subject", "normalize_object"} -> "normalize_entity"
      [] step = "open" -> "NeoGraph"
      [] step \in {"upsert_subject", "upsert_object"} -> "upsert_node"
      [] step = "upsert_relation" -> "upsert_relation"

LoadInit ==
    /\ StoreIdle
    /\ ExtractIdle
    /\ LabelIdle
    /\ SchemaIdle
    /\ hpc = "start"
    /\ storage_type \in StorageTypes
    /\ tlist \in TripleLists(MaxTriples)
    /\ ix = 1
    /\ lpc = "for"
    /\ cur = NoCur
    /\ triple_data = <<>>
    /\ inserted = 0
    /\ drivers = 0
    /\ entered = {}
    /\ failed = {}
    /\ called = {}
    /\ tcalls = <<>>
    /\ gpc = "idle"
    /\ gtriples = <<>>

loopFrame == <<storage_type, tlist>>

\* nlp = load_model(); matcher = build_matcher(nlp)
LoadModel ==
    /\ hpc = "start"
    /\ hpc' = "loaded"
    /\ called' = called \cup {"load_model"}
    /\ UNCHANGED <<loopFrame, ix, lpc, cur, triple_data, inserted, drivers,
                   entered, failed, nodes, edges, constraints, storeGhost, extractVars, labelVars, schemaGhost, genVars, tcalls>>

\* load_model() raises, outside every try: the handler ends there
LoadModelFails ==
    /\ hpc = "start"
    /\ hpc' = AfterLoadFailure
    /\ called' = called \cup {"load_model", "load_model raised"}
    /\ UNCHANGED <<loopFrame, ix, lpc, cur, triple_data, inserted, drivers,
                   entered, failed, nodes, edges, constraints, storeGhost, extractVars, labelVars, schemaGhost, genVars, tcalls>>

\* storage check, Neo4j: graph = NeoGraph(...); graph.close()
ConnectionTest ==
    /\ hpc = "loaded"
    /\ storage_type = "Neo4j Database"
    /\ constraints' = RunStatements(constraints, Len(statements))
    /\ hpc' = "checked"
    /\ called' = called \cup {"NeoGraph"}
    /\ UNCHANGED <<loopFrame, ix, lpc, cur, triple_data, inserted, drivers,
                   entered, failed, nodes, edges, storeGhost, extractVars, labelVars, schemaGhost, genVars, tcalls>>

\* storage check, Neo4j: NeoGraph(...) raises after k statements of
\* _create_schema (k = -1: the driver itself could not be made); the
\* handler reports it and stops
ConnectionTestFails(k) ==
    /\ hpc = "loaded"
    /\ storage_type = "Neo4j Database"
    /\ constraints' = IF k < 0 THEN constraints ELSE RunStatements(constraints, k)
    /\ drivers' = IF k < 0 THEN drivers ELSE drivers + 1
    /\ hpc' = "stopped"
    /\ called' = called \cup {"NeoGraph"}
    /\ UNCHANGED <<loopFrame, ix, lpc, cur, triple_data, inserted,
                   entered, failed, nodes, edges, storeGhost, extractVars, labelVars, schemaGhost, genVars, tcalls>>

\* storage check, local file: os.makedirs(save_path, exist_ok=True)
MakeDirs ==
    /\ hpc = "loaded"
    /\ storage_type = "Local File"
    /\ hpc' = "checked"
    /\ UNCHANGED <<loopFrame, ix, lpc, cur, triple_data, inserted, drivers,
                   entered, failed, nodes, edges, constraints, storeGhost, extractVars, labelVars, schemaGhost, genVars, called, tcalls>>

\* triples = extract_triples(nlp, matcher, raw); triple_data = []; inserted = 0
Extract ==
    /\ hpc = "checked"
    /\ hpc' = "loop"
    /\ ix' = 1
    /\ lpc' = "for"
    /\ triple_data' = <<>>
    /\ inserted' = 0
    /\ called' = called \cup {"extract_triples"}
    /\ UNCHANGED <<loopFrame, cur, drivers, entered, failed,
                   nodes, edges, constraints, storeGhost, extractVars, labelVars, schemaGhost, genVars, tcalls>>

\* extract_triples raises: the outer except reports the failure
ExtractFails ==
    /\ hpc = "checked"
    /\ hpc' = "failed"
    /\ called' = called \cup {"extract_triples"}
    /\ UNCHANGED <<loopFrame, ix, lpc, cur, triple_data, inserted, drivers,
                   entered, failed, nodes, edges, constraints, storeGhost, extractVars, labelVars, schemaGhost, genVars, tcalls>>

\* for i, t in enumerate(triples): the next triple is taken
ForNext ==
    /\ hpc = "loop"
    /\ lpc = "for"
    /\ ix <= Len(tlist)
    /\ lpc' = "normalize_subject"
    /\ entered' = entered \cup {ix}
    /\ tcalls' = <<>>
    /\ UNCHANGED <<hpc, loopFrame, ix, cur, triple_data, inserted, drivers,
                   failed, nodes, edges, constraints, storeGhost, extractVars, labelVars, schemaGhost, genVars, called>>

\* subj_norm, subj_cui, _ = normalize_entity(nlp, t["subject"])
NormalizeSubject ==
    /\ hpc = "loop"
    /\ lpc = "normalize_subject"
    /\ cur' = [cur EXCEPT !.subj_norm = normalize_entity(tlist[ix].subject)[1],
                          !.subj_cui = normalize_entity(tlist[ix].subject)[2]]
    /\ lpc' = "normalize_object"
    /\ called' = called \cup {"normalize_entity"}
    /\ UNCHANGED <<hpc, loopFrame, ix, triple_data, inserted, drivers,
                   entered, failed, nodes, edges, constraints, storeGhost, extractVars, labelVars, schemaGhost, genVars, tcalls>>

\* obj_norm, obj_cui, _ = normalize_entity(nlp, t["object"])
NormalizeObject ==
    /\ hpc = "loop"
    /\ lpc = "normalize_object"
    /\ cur' = [cur EXCEPT !.obj_norm = normalize_entity(tlist[ix].object)[1],
                          !.obj_cui = normalize_entity(tlist[ix].object)[2]]
    /\ lpc' = "append"
    /\ called' = called \cup {"normalize_entity"}
    /\ UNCHANGED <<hpc, loopFrame, ix, triple_data, inserted, drivers,
                   entered, failed, nodes, edges, constraints, storeGhost, extractVars, labelVars, schemaGhost, genVars, tcalls>>

\* the triple_info dict of the current triple
triple_info ==
    [subject |-> cur.subj_norm,
     subject_type |-> label_for(cur.subj_norm),
     relation |-> tlist[ix].relation,
     direction |-> tlist[ix].dir,
     object |-> cur.obj_norm,
     object_type |-> label_for(cur.obj_norm),
     confidence |-> tlist[ix].confidence,
     sentence |-> tlist[ix].sentence]

\* s_label, o_label = label_for(...); triple_data.append(triple_info)
AppendTripleInfo ==
    /\ hpc = "loop"
    /\ lpc = "append"
    /\ triple_data' = Append(triple_data, triple_info)
    /\ lpc' = IF storage_type = "Neo4j Database" THEN "open" ELSE "count"
    /\ UNCHANGED <<hpc, loopFrame, ix, cur, inserted, drivers,
                   entered, failed, nodes, edges, constraints, storeGhost, extractVars, labelVars, schemaGhost, genVars, called, tcalls>>

\* graph = NeoGraph(uri=..., user=..., pwd=...)
OpenGraph ==
    /\ hpc = "loop"
    /\ lpc = "open"
    /\ constraints' = RunStatements(constraints, Len(statements))
    /\ drivers' = drivers + 1
    /\ lpc' = StoreSteps[1]
    /\ called' = called \cup {"NeoGraph"}
    /\ UNCHANGED <<hpc, loopFrame, ix, cur, triple_data, inserted,
                   entered, failed, nodes, edges, storeGhost, extractVars, labelVars, schemaGhost, genVars, tcalls>>

\* graph.upsert_node(s_label, subj_norm, subj_cui)
UpsertSubject ==
    /\ hpc = "loop"
    /\ lpc = "upsert_subject"
    /\ nodes' = upsert_node(nodes, label_for(cur.subj_norm), cur.subj_norm, cur.subj_cui)
    /\ lpc' = StepAfter("upsert_subject")
    /\ called' = called \cup {"upsert_node"}
    /\ tcalls' = Append(tcalls, StoreCallAt(lpc))
    /\ UNCHANGED <<hpc, loopFrame, ix, cur, triple_data, inserted, drivers,
                   entered, failed, edges, constraints, storeGhost, extractVars, labelVars, schemaGhost, genVars>>

\* graph.upsert_node(o_label, obj_norm, obj_cui)
UpsertObject ==
    /\ hpc = "loop"
    /\ lpc = "upsert_object"
    /\ nodes' = upsert_node(nodes, label_for(cur.obj_norm), cur.obj_norm, cur.obj_cui)
    /\ lpc' = StepAfter("upsert_object")
    /\ called' = called \cup {"upsert_node"}
    /\ tcalls' = Append(tcalls, StoreCallAt(lpc))
    /\ UNCHANGED <<hpc, loopFrame, ix, cur, triple_data, inserted, drivers,
                   entered, failed, edges, constraints, storeGhost, extractVars, labelVars, schemaGhost, genVars>>

\* graph.upsert_relation(s_label, subj_norm, o_label, obj_norm, t["relation"],
\*                       t["dir"], t["confidence"], t["sentence"])
UpsertTripleRelation ==
    /\ hpc = "loop"
    /\ lpc = "upsert_relation"
    /\ LET g == upsert_relation(nodes, edges,
                                label_for(cur.subj_norm), cur.subj_norm,
                                label_for(cur.obj_norm), cur.obj_norm,
                                tlist[ix].relation, tlist[ix].dir,
                                Some(tlist[ix].confidence), tlist[ix].sentence)
       IN  nodes' = g.nodes /\ edges' = g.edges
    /\ lpc' = StepAfter("upsert_relation")
    /\ called' = called \cup {"upsert_relation"}
    /\ tcalls' = Append(tcalls, StoreCallAt(lpc))
    /\ UNCHANGED <<hpc, loopFrame, ix, cur, triple_data, inserted, drivers,
                   entered, failed, constraints, storeGhost, extractVars, labelVars, schemaGhost, genVars>>

\* graph.close()
CloseGraph ==
    /\ hpc = "loop"
    /\ lpc = "close"
    /\ drivers' = drivers - 1
    /\ lpc' = "count"
    /\ UNCHANGED <<hpc, loopFrame, ix, cur, triple_data, inserted,
                   entered, failed, nodes, edges, constraints, storeGhost, extractVars, labelVars, schemaGhost, genVars, called, tcalls>>

\* inserted += 1; gen_progress.progress(...); on to the next triple
CountInserted ==
    /\ hpc = "loop"
    /\ lpc = "count"
    /\ inserted' = inserted + 1
    /\ ix' = ix + 1
    /\ lpc' = "for"
    /\ UNCHANGED <<hpc, loopFrame, cur, triple_data, drivers,
                   entered, failed, nodes, edges, constraints, storeGhost, extractVars, labelVars, schemaGhost, genVars, called, tcalls>>

\* the places of the loop body where a call can raise
RaisingSteps == {"normalize_subject", "normalize_object", "open",
                 "upsert_subject", "upsert_object", "upsert_relation"}

\* a call of the loop body raises: normalize_entity, the NeoGraph
\* constructor (after k statements of _create_schema; k = -1: no driver
\* was made) or an upsert; except Exception: st.warning(...); continue
TripleRaises(k) ==
    /\ hpc = "loop"
    /\ lpc \in RaisingSteps
    /\ (k # -1) => lpc = "open"
    /\ constraints' = IF lpc = "open" /\ k >= 0
                      THEN RunStatements(constraints, k) ELSE constraints
    /\ drivers' = IF lpc = "open" /\ k >= 0 THEN drivers + 1 ELSE drivers
    /\ failed' = failed \cup {ix}
    /\ ix' = AfterTripleError(ix, Len(tlist))
    /\ lpc' = "for"
    /\ called' = called \cup {FunctionAt(lpc)}
    /\ tcalls' = IF \E q \in DOMAIN StoreSteps : StoreSteps[q] = lpc
                 THEN Append(tcalls, StoreCallAt(lpc)) ELSE tcalls
    /\ UNCHANGED <<hpc, loopFrame, cur, triple_data, inserted,
                   entered, nodes, edges, storeGhost, extractVars, labelVars, schemaGhost, genVars>>

\* the list is exhausted: the local file is written, or the count reported
LoopEnds ==
    /\ hpc = "loop"
    /\ lpc = "for"
    /\ ix > Len(tlist)
    /\ hpc' = "done"
    /\ UNCHANGED <<loopFrame, ix, lpc, cur, triple_data, inserted, drivers,
                   entered, failed, nodes, edges, constraints, storeGhost, extractVars, labelVars, schemaGhost, genVars, called, tcalls>>

\* writing the local file raises: the outer except reports the failure
SaveFails ==
    /\ hpc = "loop"
    /\ lpc = "for"
    /\ ix > Len(tlist)
    /\ storage_type = "Local File"
    /\ hpc' = "failed"
    /\ UNCHANGED <<loopFrame, ix, lpc, cur, triple_data, inserted, drivers,
                   entered, failed, nodes, edges, constraints, storeGhost, extractVars, labelVars, schemaGhost, genVars, called, tcalls>>

LoadNext ==
    \/ LoadModel
    \/ LoadModelFails
    \/ ConnectionTest
    \/ \E k \in -1..(Len(statements) - 2) : ConnectionTestFails(k)
    \/ MakeDirs
    \/ Extract
    \/ ExtractFails
    \/ ForNext
    \/ NormalizeSubject
    \/ NormalizeObject
    \/ AppendTripleInfo
    \/ OpenGraph
    \/ UpsertSubject
    \/ UpsertObject
    \/ UpsertTripleRelation
    \/ CloseGraph
    \/ CountInserted
    \/ \E k \in -1..(Len(statements) - 2) : TripleRaises(k)
    \/ LoopEnds
    \/ SaveFails

SpecLoad == LoadInit /\ [][LoadNext]_vars

\* C10: in the bulk load loop a triple that raises is left for the triple
\* after it, and the handler stays in the loop; every triple before the
\* current one has been taken up, and when the loop is over every triple of
\* the extracted list has been taken up, whichever of them failed.
C10_FailureSkipsOneTriple ==
    /\ [](hpc \in {"loop", "done"} =>
            /\ \A k \in 1..Len(tlist) : k < ix => k \in entered
            /\ failed \subseteq entered
            /\ (hpc = "done" => entered = 1..Len(tlist)))
    /\ [][failed' # failed =>
            (hpc' = "loop" /\ lpc' = "for" /\ ix' = ix + 1)]_vars

\* the loop is over, the first triple failed and a later one was stored
C10_Witness ==
    /\ hpc = "done"
    /\ 1 \in failed
    /\ 2 \in entered \ failed
    /\ edges # <<>>

\* the triple_info dict the loop body builds for the triple at position k
RecordAt(k) ==
    [subject |-> normalize_entity(tlist[k].subject)[1],
     subject_type |-> label_for(normalize_entity(tlist[k].subject)[1]),
     relation |-> tlist[k].relation,
     direction |-> tlist[k].dir,
     object |-> normalize_entity(tlist[k].object)[1],
     object_type |-> label_for(normalize_entity(tlist[k].object)[1]),
     confidence |-> tlist[k].confidence,
     sentence |-> tlist[k].sentence]

\* the records of the positions 1..n that lie in ok, in list order
RECURSIVE RecordsOf(_, _)
RecordsOf(ok, n) ==
    IF n = 0 THEN <<>>
    ELSE IF n \in ok THEN Append(RecordsOf(ok, n - 1), RecordAt(n))
    ELSE RecordsOf(ok, n - 1)

\* C11: when a bulk load with database storage is over, the output records
\* are exactly the records of the triples whose body raised nowhere, in
\* extraction order, and the success count is the number of output records.
C11_OutputIsSuccessfulTriples ==
    (hpc = "done" /\ storage_type = "Neo4j Database") =>
        /\ triple_data = RecordsOf(entered \ failed, Len(tlist))
        /\ inserted = Len(triple_data)

(***************************************************************************)
(* The "Generate Knowledge Graph" handler of graphGenerator.py: five      *)
(* stages in a row, with no try around any of them, so that an exception  *)
(* ends the script run where it is raised.  One NeoGraph serves the whole *)
(* write stage.  The stage after the write only displays.                 *)
(***************************************************************************)
GenInit ==
    /\ StoreIdle
    /\ ExtractIdle
    /\ LabelIdle
    /\ SchemaIdle
    /\ hpc = "idle"
    /\ storage_type = "Neo4j Database"
    /\ tlist \in TripleLists(MaxTriples)
    /\ ix = 1
    /\ lpc = "for"
    /\ cur = NoCur
    /\ triple_data = <<>>
    /\ inserted = 0
    /\ drivers = 0
    /\ entered = {}
    /\ failed = {}
    /\ called = {}
    /\ tcalls = <<>>
    /\ gpc = "start"
    /\ gtriples = <<>>

main1Frame == <<hpc, storage_type, tlist, cur, triple_data, inserted, entered, failed>>

\* Stage 1: nlp = load_scispacy_model(); matcher = build_matcher(nlp)
GenLoadModel ==
    /\ gpc = "start"
    /\ gpc' = "loaded"
    /\ called' = called \cup {"load_model"}
    /\ UNCHANGED <<main1Frame, ix, lpc, drivers, tcalls, gtriples, nodes, edges,
                   constraints, storeGhost, extractVars, labelVars, schemaGhost>>

\* Stage 1: load_scispacy_model() raises
GenLoadModelFails ==
    /\ gpc = "start"
    /\ gpc' = AfterLoadFailure
    /\ called' = called \cup {"load_model", "load_model raised"}
    /\ UNCHANGED <<main1Frame, ix, lpc, drivers, tcalls, gtriples, nodes, edges,
                   constraints, storeGhost, extractVars, labelVars, schemaGhost>>

\* Stage 2: triples = extract_triples(nlp, matcher, input_text); the dicts
\* have no subject_cui and no object_cui key yet
GenExtract ==
    /\ gpc = "loaded"
    /\ gtriples' = [k \in DOMAIN tlist |->
                      [subject |-> tlist[k].subject, subject_cui |-> NULL,
                       object |-> tlist[k].object, object_cui |-> NULL,
                       relation |-> tlist[k].relation, dir |-> tlist[k].dir,
                       confidence |-> tlist[k].confidence,
                       sentence |-> tlist[k].sentence]]
    /\ ix' = 1
    /\ gpc' = "normalize"
    /\ called' = called \cup {"extract_triples"}
    /\ UNCHANGED <<main1Frame, lpc, drivers, tcalls, nodes, edges,
                   constraints, storeGhost, extractVars, labelVars, schemaGhost>>

\* Stage 2: extract_triples raises
GenExtractFails ==
    /\ gpc = "loaded"
    /\ gpc' = "crashed"
    /\ called' = called \cup {"extract_triples"}
    /\ UNCHANGED <<main1Frame, ix, lpc, drivers, tcalls, gtriples, nodes, edges,
                   constraints, storeGhost, extractVars, labelVars, schemaGhost>>

\* Stage 3, one triple: both names normalized, then written back into t
GenNormalize ==
    /\ gpc = "normalize"
    /\ ix <= Len(gtriples)
    /\ gtriples' = [gtriples EXCEPT ![ix] =
                      [@ EXCEPT !.subject = normalize_entity(gtriples[ix].subject)[1],
                                !.subject_cui = normalize_entity(gtriples[ix].subject)[2],
                                !.object = normalize_entity(gtriples[ix].object)[1],
                                !.object_cui = normalize_entity(gtriples[ix].object)[2]]]
    /\ ix' = ix + 1
    /\ called' = called \cup {"normalize_entity"}
    /\ UNCHANGED <<main1Frame, lpc, drivers, tcalls, gpc, nodes, edges,
                   constraints, storeGhost, extractVars, labelVars, schemaGhost>>

\* Stage 3: normalize_entity raises
GenNormalizeFails ==
    /\ gpc = "normalize"
    /\ ix <= Len(gtriples)
    /\ gpc' = "crashed"
    /\ called' = called \cup {"normalize_entity"}
    /\ UNCHANGED <<main1Frame, ix, lpc, drivers, tcalls, gtriples, nodes, edges,
                   constraints, storeGhost, extractVars, labelVars, schemaGhost>>

\* Stage 4: graph = NeoGraph(uri, user, pwd), once for the run
GenOpenGraph ==
    /\ gpc = "normalize"
    /\ ix > Len(gtriples)
    /\ constraints' = RunStatements(constraints, Len(statements))
    /\ drivers' = drivers + 1
    /\ ix' = 1
    /\ lpc' = "for"
    /\ gpc' = "write"
    /\ called' = called \cup {"NeoGraph"}
    /\ UNCHANGED <<main1Frame, tcalls, gtriples, nodes, edges,
                   storeGhost, extractVars, labelVars, schemaGhost>>

\* Stage 4: NeoGraph(...) raises after k statements of _create_schema
\* (k = -1: the driver itself could not be made)
GenOpenGraphFails(k) ==
    /\ gpc = "normalize"
    /\ ix > Len(gtriples)
    /\ constraints' = IF k < 0 THEN constraints ELSE RunStatements(constraints, k)
    /\ drivers' = IF k < 0 THEN drivers ELSE drivers + 1
    /\ gpc' = "crashed"
    /\ called' = called \cup {"NeoGraph"}
    /\ UNCHANGED <<main1Frame, ix, lpc, tcalls, gtriples, nodes, edges,
                   storeGhost, extractVars, labelVars, schemaGhost>>

\* for t in triples: the next triple is taken
GenForNext ==
    /\ gpc = "write"
    /\ lpc = "for"
    /\ ix <= Len(gtriples)
    /\ lpc' = "upsert_subject"
    /\ tcalls' = <<>>
    /\ UNCHANGED <<main1Frame, ix, drivers, called, genVars, nodes, edges,
                   constraints, storeGhost, extractVars, labelVars, schemaGhost>>

\* graph.upsert_node(s_label, t["subject"], t.get("subject_cui"))
GenUpsertSubject ==
    /\ gpc = "write"
    /\ lpc = "upsert_subject"
    /\ nodes' = upsert_node(nodes, label_for_graphGenerator(gtriples[ix].subject),
                            gtriples[ix].subject, gtriples[ix].subject_cui)
    /\ lpc' = "upsert_object"
    /\ called' = called \cup {"upsert_node"}
    /\ tcalls' = Append(tcalls, "upsert_node(subject)")
    /\ UNCHANGED <<main1Frame, ix, drivers, genVars, edges,
                   constraints, storeGhost, extractVars, labelVars, schemaGhost>>

\* graph.upsert_node(o_label, t["object"], t.get("object_cui"))
GenUpsertObject ==
    /\ gpc = "write"
    /\ lpc = "upsert_object"
    /\ nodes' = upsert_node(nodes, label_for_graphGenerator(gtriples[ix].object),
                            gtriples[ix].object, gtriples[ix].object_cui)
    /\ lpc' = "upsert_relation"
    /\ called' = called \cup {"upsert_node"}
    /\ tcalls' = Append(tcalls, "upsert_node(object)")
    /\ UNCHANGED <<main1Frame, ix, drivers, genVars, edges,
                   constraints, storeGhost, extractVars, labelVars, schemaGhost>>

\* graph.upsert_relation(s_label, t["subject"], o_label, t["object"],
\*                       t["relation"], t["dir"], t["confidence"], t["sentence"])
GenUpsertRelation ==
    /\ gpc = "write"
    /\ lpc = "upsert_relation"
    /\ LET g == upsert_relation(nodes, edges,
                                label_for_graphGenerator(gtriples[ix].subject),
                                gtriples[ix].subject,
                                label_for_graphGenerator(gtriples[ix].object),
                                gtriples[ix].object,
                                gtriples[ix].relation, gtriples[ix].dir,
                                Some(gtriples[ix].confidence), gtriples[ix].sentence)
       IN  nodes' = g.nodes /\ edges' = g.edges
    /\ ix' = ix + 1
    /\ lpc' = "for"
    /\ called' = called \cup {"upsert_relation"}
    /\ tcalls' = Append(tcalls, "upsert_relation")
    /\ UNCHANGED <<main1Frame, drivers, genVars,
                   constraints, storeGhost, extractVars, labelVars, schemaGhost>>

\* an upsert raises: the script run ends inside the loop, before graph.close()
GenUpsertRaises ==
    /\ gpc = "write"
    /\ lpc \in {"upsert_subject", "upsert_object", "upsert_relation"}
    /\ gpc' = "crashed"
    /\ called' = called \cup {FunctionAt(lpc)}
    /\ tcalls' = Append(tcalls, StoreCallAt(lpc))
    /\ UNCHANGED <<main1Frame, ix, lpc, drivers, gtriples, nodes, edges,
                   constraints, storeGhost, extractVars, labelVars, schemaGhost>>

\* the list is exhausted: graph.close(), and on to the display
GenCloseGraph ==
    /\ gpc = "write"
    /\ lpc = "for"
    /\ ix > Len(gtriples)
    /\ drivers' = drivers - 1
    /\ gpc' = "done"
    /\ UNCHANGED <<main1Frame, ix, lpc, called, tcalls, gtriples, nodes, edges,
                   constraints, storeGhost, extractVars, labelVars, schemaGhost>>

GenNext ==
    \/ GenLoadModel
    \/ GenLoadModelFails
    \/ GenExtract
    \/ GenExtractFails
    \/ GenNormalize
    \/ GenNormalizeFails
    \/ GenOpenGraph
    \/ \E k \in -1..(Len(statements) - 2) : GenOpenGraphFails(k)
    \/ GenForNext
    \/ GenUpsertSubject
    \/ GenUpsertObject
    \/ GenUpsertRelation
    \/ GenUpsertRaises
    \/ GenCloseGraph

\* a run of either handler
SpecPipelines == (LoadInit \/ GenInit) /\ [][LoadNext \/ GenNext]_vars

\* the calls that extract or that reach the graph store
ExtractAndStoreCalls == {"extract_triples", "NeoGraph", "upsert_node", "upsert_relation"}

\* C13: once model loading has raised, in either handler, the run is over:
\* no step of the handler is possible, extract_triples has not been called
\* and no store call -- connection open, upsert_node, upsert_relation -- has
\* been made, so the store is as it was.
C13_LoadFailureHaltsRun ==
    "load_model raised" \in called =>
        /\ ~ENABLED (LoadNext \/ GenNext)
        /\ called \cap ExtractAndStoreCalls = {}
        /\ nodes = <<>> /\ edges = <<>> /\ constraints = <<>>
        /\ drivers = 0
        /\ triple_data = <<>> /\ gtriples = <<>>

\* model loading raised in a run whose text holds a triple
C13_Witness ==
    /\ "load_model raised" \in called
    /\ hpc = "crashed" \/ gpc = "crashed"
    /\ tlist # <<>>

\* C14: whenever the processing of a triple in main1.py, or a run of either
\* handler, has ended -- normally or by an exception -- every driver made by
\* a NeoGraph(...) has been closed.
C14_EveryGraphClosed ==
    (\/ hpc = "loop" /\ lpc = "for"
     \/ hpc \in {"stopped", "done", "failed", "crashed"}
     \/ gpc \in {"done", "crashed"})
        => drivers = 0

\* the graph holds both nodes and a relationship of type t from sk to ok
HoldsTriple(sk, ok, t) ==
    /\ HasNode(nodes, sk)
    /\ HasNode(nodes, ok)
    /\ RelsOf(nodes, edges, <<sk, ok, t>>) # {}

\* what the loop of main1.py stores for the triple at position k
MainStored(k) ==
    LET s == normalize_entity(tlist[k].subject)[1]
        o == normalize_entity(tlist[k].object)[1]
    IN  HoldsTriple(<<label_for(s), s>>, <<label_for(o), o>>, tlist[k].relation)

\* what the write stage of graphGenerator.py stores for the triple at position k
GenStored(k) ==
    HoldsTriple(<<label_for_graphGenerator(gtriples[k].subject), gtriples[k].subject>>,
                <<label_for_graphGenerator(gtriples[k].object), gtriples[k].object>>,
                gtriples[k].relation)

\* C15: the store calls made for one triple are, in this order,
\* upsert_node(subject), upsert_node(object), upsert_relation; and once the
\* three calls of a triple have returned, in either handler, the graph holds
\* the subject node, the object node and a relationship of the triple's type
\* from the subject to the object, and goes on holding them.
C15_StoreCallOrder ==
    /\ \E n \in 0..3 :
          tcalls = SubSeq(<<"upsert_node(subject)", "upsert_node(object)",
                            "upsert_relation">>, 1, n)
    /\ (hpc \in {"loop", "done"} /\ storage_type = "Neo4j Database") =>
          \A k \in entered \ failed :
              (k < ix \/ lpc \in {"close", "count"}) => MainStored(k)
    /\ gpc \in {"write", "done"} =>
          \A k \in DOMAIN gtriples : k < ix => GenStored(k)

\* a bulk load of two triples is over with both stored
C15_Witness ==
    /\ hpc = "done"
    /\ storage_type = "Neo4j Database"
    /\ entered \ failed = {1, 2}
    /\ tlist[1] # tlist[2]
    /\ Len(edges) = 2
    /\ tcalls = <<"upsert_node(subject)", "upsert_node(object)", "upsert_relation">>

====
